---- MODULE Spec2Model ----
(***************************************************************************)
(* cmd-line-executor MCP server (src/src/cmd_line_executor/server.py).     *)
(*                                                                         *)
(* call_tool validates a "call tool" request and awaits run_cmd_line,      *)
(* which spawns a child without a shell, awaits communicate(), decodes     *)
(* and normalises both streams and returns a dict; every Exception raised  *)
(* inside run_cmd_line is turned into a status_code 1 dict.                *)
(*                                                                         *)
(* Python values are tagged records, text is a sequence of one-character   *)
(* strings, captured output is a sequence of byte values.  Each call (an   *)
(* asyncio task) has its own locals; the two awaits of run_cmd_line are    *)
(* the points where other calls and the children may take steps.           *)
(***************************************************************************)
EXTENDS Integers, Sequences, FiniteSets, TLC

\* Longest captured stream (in bytes) the one-call specification enumerates.
MaxOut == 2
\* Number of tool calls that may be in flight at once.
NumCalls == 2

VARIABLES pc, name, arguments, cmd, args, cmd_list, process, caught, output, response

vars == <<pc, name, arguments, cmd, args, cmd_list, process, caught, output, response>>

Calls == 1..NumCalls

----------------------------------------------------------------------------
\* Python values

None_ == [t |-> "None"]
Unset == [t |-> "unset"]
StrV(s) == [t |-> "str", v |-> s]
IntV(n) == [t |-> "int", v |-> n]
Dict(f) == [t |-> "dict", items |-> f]

\* bool(v): what `if v:` and `v or w` test.
Truthy(v) ==
  CASE v.t = "None" -> FALSE
    [] v.t = "str" -> v.v # ""
    [] v.t = "int" -> v.v # 0
    [] v.t = "dict" -> DOMAIN v.items # {}
    [] OTHER -> TRUE

IsDict(v) == v.t = "dict"
IsStr(v) == v.t = "str"

----------------------------------------------------------------------------
\* Text: bytes.decode(), str.strip(), str.split('\n'), the comprehension

Whitespace == {" ", "\n", "\t", "\r"}

\* Bytes a child may write: 'a', space, newline, and 0xff (never valid UTF-8).
Bytes == {97, 32, 10, 255}

CharOf(b) ==
  CASE b = 97 -> "a"
    [] b = 32 -> " "
    [] b = 10 -> "\n"
    [] b = 9 -> "\t"
    [] b = 13 -> "\r"
    [] OTHER -> "?"

Decodable(bs) == \A i \in 1..Len(bs) : bs[i] < 128

Decode(bs) == [i \in 1..Len(bs) |-> CharOf(bs[i])]

RECURSIVE LStrip(_)
LStrip(s) ==
  IF s # <<>> /\ Head(s) \in Whitespace THEN LStrip(Tail(s)) ELSE s

RECURSIVE RStrip(_)
RStrip(s) ==
  IF s # <<>> /\ s[Len(s)] \in Whitespace
  THEN RStrip(SubSeq(s, 1, Len(s) - 1))
  ELSE s

Strip(s) == RStrip(LStrip(s))

RECURSIVE Split(_, _)
Split(s, sep) ==
  IF \A i \in 1..Len(s) : s[i] # sep
  THEN <<s>>
  ELSE LET i == CHOOSE j \in 1..Len(s) :
                  s[j] = sep /\ \A k \in 1..(j - 1) : s[k] # sep
       IN <<SubSeq(s, 1, i - 1)>> \o Split(SubSeq(s, i + 1, Len(s)), sep)

IsNonEmptyLine(line) == line # <<>>

NonEmptyLines(lines) == SelectSeq(lines, IsNonEmptyLine)

\* Lines 44-48 for one stream whose bytes decode.
StreamLines(bs) ==
  NonEmptyLines(IF bs # <<>> THEN Split(Strip(Decode(bs)), "\n") ELSE <<>>)

----------------------------------------------------------------------------
\* Exceptions

NoExc == [type |-> "none", msg |-> <<>>]
Exc(type, msg) == [type |-> type, msg |-> msg]

IsSubprocessError(e) ==
  e.type \in {"SubprocessError", "CalledProcessError", "TimeoutExpired"}

UnexpectedPrefix ==
  <<"U", "n", "e", "x", "p", "e", "c", "t", "e", "d", " ",
    "e", "r", "r", "o", "r", ":", " ">>

MsgNotFound == <<"E", "N", "O", "E", "N", "T">>
MsgDenied == <<"E", "A", "C", "C", "E", "S">>
MsgBadArg == <<"e", "x", "p", "e", "c", "t", "e", "d", " ", "s", "t", "r">>
MsgBadChild == <<"B", "a", "d", " ", "d", "a", "t", "a">>
MsgBadByte == <<"0", "x", "f", "f">>
MsgIO == <<"E", "I", "O">>

\* str(e) is whatever the exception carries; an exception built without
\* arguments has the empty text.
SubprocessMsgs == {MsgBadChild, <<>>}

----------------------------------------------------------------------------
\* run_cmd_line, between its awaits

\* Variant of CmdList that tests `args is not None` instead of `if args`.
CmdListAs(c, a) == IF a.t # "None" /\ a.t # "unset" THEN <<c, a>> ELSE <<c>>

\* Lines 31-33.
CmdList(c, a) == IF Truthy(a) THEN <<c, a>> ELSE <<c>>

Returned(value) == [raised |-> FALSE, value |-> value, exc |-> NoExc]
Raised(e) == [raised |-> TRUE, value |-> None_, exc |-> e]

Result(c, a, status, out, err) ==
  [cmd |-> c, args |-> a, status_code |-> status, stdout |-> out, stderr |-> err]

\* Variant of the handlers that reports status_code 0.
ExceptZeroStatus(c, a, e) ==
  Returned(Result(c, a, IntV(0), <<>>,
                  IF IsSubprocessError(e) THEN <<e.msg>>
                  ELSE <<UnexpectedPrefix \o e.msg>>))

\* Variant of the handlers that lets the exception leave run_cmd_line.
ExceptReraise(c, a, e) == Raised(e)

\* Lines 58-73: the two handlers.
RunCmdLineExcept(c, a, e) ==
  IF IsSubprocessError(e)
  THEN Returned(Result(c, a, IntV(1), <<>>, <<e.msg>>))
  ELSE Returned(Result(c, a, IntV(1), <<>>, <<UnexpectedPrefix \o e.msg>>))

\* Variant of StatusCode that ignores the return code.
StatusCodeAs(rc) == IntV(0)

\* Line 53: process.returncode or 0.
StatusCode(rc) == IF Truthy(rc) THEN rc ELSE IntV(0)

\* Lines 44-56, after communicate() returned (out, err); a decode error is
\* raised inside the try block and handled at line 66.
RunCmdLineReturn(c, a, rc, out, err) ==
  IF ~Decodable(out) \/ ~Decodable(err)
  THEN RunCmdLineExcept(c, a, Exc("UnicodeDecodeError", MsgBadByte))
  ELSE Returned(Result(c, a, StatusCode(rc), StreamLines(out), StreamLines(err)))

----------------------------------------------------------------------------
\* call_tool

\* Variant of IsKnownTool without the name check.
IsKnownToolAs(n) == TRUE

\* Line 104.
IsKnownTool(n) == n = "run_command"

\* Variant of ValidArguments without the `"cmd" in arguments` test.
ValidArgumentsAs(a) == IsDict(a)

\* Line 107.
ValidArguments(a) == IsDict(a) /\ "cmd" \in DOMAIN a.items

NoResponse == [kind |-> "none"]
Fault(type, msg) == [kind |-> "fault", type |-> type, msg |-> msg]

\* json.dumps of the result dict: the labelled fields in insertion order.
JsonDumps(d) ==
  <<"{", "cmd", d.cmd, "args", d.args, "status_code", d.status_code,
    "stdout", d.stdout, "stderr", d.stderr, "}">>

TextContent(text) == [type |-> "text", text |-> text]
Content(blocks) == [kind |-> "content", blocks |-> blocks]

\* Lines 115-126: what call_tool does with run_cmd_line's outcome.
CallToolFinish(r) ==
  IF r.raised
  THEN Fault("RuntimeError", r.exc.msg)
  ELSE Content(<<TextContent(JsonDumps(r.value))>>)

----------------------------------------------------------------------------
\* The operating system and the children

NoProcess ==
  [state |-> "none", pipes |-> "none", returncode |-> None_,
   out |-> <<>>, err |-> <<>>]

Executables == {StrV("echo")}

ReturnCodes == {IntV(0), IntV(2), IntV(-9)}

RECURSIVE SeqsUpTo(_, _)
SeqsUpTo(S, n) ==
  IF n = 0 THEN {<<>>}
  ELSE LET shorter == SeqsUpTo(S, n - 1)
       IN shorter \cup {Append(s, x) : s \in shorter, x \in S}

Outputs == SeqsUpTo(Bytes, MaxOut)

\* What a child may have written and returned when it exits.
Outcomes == [returncode : ReturnCodes, out : Outputs, err : Outputs]

SomeOutcomes ==
  {[returncode |-> IntV(0), out |-> <<32, 97>>, err |-> <<>>],
   [returncode |-> IntV(2), out |-> <<>>, err |-> <<97, 10>>],
   [returncode |-> IntV(0), out |-> <<255>>, err |-> <<>>],
   [returncode |-> IntV(-9), out |-> <<>>, err |-> <<>>]}

CanExec(argv) ==
  /\ \A i \in 1..Len(argv) : IsStr(argv[i])
  /\ argv[1] \in Executables

\* What create_subprocess_exec may raise for an argument vector.
SpawnErrors(argv) ==
  IF \E i \in 1..Len(argv) : ~IsStr(argv[i])
  THEN {Exc("TypeError", MsgBadArg)}
  ELSE IF argv[1] \notin Executables
  THEN {Exc("FileNotFoundError", MsgNotFound)}
  ELSE {Exc("PermissionError", MsgDenied)}
       \cup {Exc("SubprocessError", m) : m \in SubprocessMsgs}

\* What communicate() may raise while the pipes are being read.
CommunicateErrors == {Exc("OSError", MsgIO)}

\* Variant of ProcessOf where `process` is one module-level name that the
\* last task overwrites.
ProcessOfAs(c, procs) == procs[NumCalls]

\* The local variable `process` of call c (lines 36, 42, 53).
ProcessOf(c, procs) == procs[c]

----------------------------------------------------------------------------
\* Requests

Names == {"run_command", "delete_everything"}
Cmds == {StrV("echo"), StrV("nonexistent_binary_xyz"), IntV(5)}
ArgsValues == {None_, StrV(""), StrV("hello world")}

Payloads ==
  {StrV("echo"), Dict([k \in {} |-> None_])}
  \cup {Dict("args" :> a) : a \in ArgsValues}
  \cup {Dict("cmd" :> c) : c \in Cmds}
  \cup {Dict(("cmd" :> c) @@ ("args" :> a)) : c \in Cmds, a \in ArgsValues}

Requests == Names \X Payloads

SomeRequests ==
  {<<"run_command", Dict(("cmd" :> StrV("echo")) @@ ("args" :> StrV("hello world")))>>,
   <<"run_command", Dict("cmd" :> StrV("echo"))>>,
   <<"run_command", Dict("cmd" :> StrV("nonexistent_binary_xyz"))>>,
   <<"delete_everything", Dict("cmd" :> StrV("echo"))>>}

----------------------------------------------------------------------------
\* State machine

Init ==
  /\ pc = [c \in Calls |-> "idle"]
  /\ name = [c \in Calls |-> ""]
  /\ arguments = [c \in Calls |-> None_]
  /\ cmd = [c \in Calls |-> Unset]
  /\ args = [c \in Calls |-> Unset]
  /\ cmd_list = [c \in Calls |-> <<>>]
  /\ process = [c \in Calls |-> NoProcess]
  /\ caught = [c \in Calls |-> NoExc]
  /\ output = [c \in Calls |-> None_]
  /\ response = [c \in Calls |-> NoResponse]

\* call_tool up to the first await of run_cmd_line (lines 104-116, 31-36).
\* arguments["cmd"] (line 110) raises KeyError for a missing key; line 107
\* keeps that branch from being taken.
CallTool(c, req) ==
  /\ pc[c] = "idle"
  /\ name' = [name EXCEPT ![c] = req[1]]
  /\ arguments' = [arguments EXCEPT ![c] = req[2]]
  /\ IF ~IsKnownTool(req[1])
     THEN /\ response' = [response EXCEPT ![c] = Fault("ValueError", "Unknown tool")]
          /\ pc' = [pc EXCEPT ![c] = "done"]
          /\ UNCHANGED <<cmd, args, cmd_list>>
     ELSE IF ~ValidArguments(req[2])
     THEN /\ response' = [response EXCEPT ![c] = Fault("ValueError", "Invalid arguments")]
          /\ pc' = [pc EXCEPT ![c] = "done"]
          /\ UNCHANGED <<cmd, args, cmd_list>>
     ELSE IF "cmd" \notin DOMAIN req[2].items
     THEN /\ response' = [response EXCEPT ![c] = Fault("KeyError", "cmd")]
          /\ pc' = [pc EXCEPT ![c] = "done"]
          /\ UNCHANGED <<cmd, args, cmd_list>>
     ELSE LET c0 == req[2].items["cmd"]
              a0 == IF "args" \in DOMAIN req[2].items
                    THEN req[2].items["args"] ELSE None_
          IN /\ cmd' = [cmd EXCEPT ![c] = c0]
             /\ args' = [args EXCEPT ![c] = a0]
             /\ cmd_list' = [cmd_list EXCEPT ![c] = CmdList(c0, a0)]
             /\ pc' = [pc EXCEPT ![c] = "spawning"]
             /\ UNCHANGED response
  /\ UNCHANGED <<process, caught, output>>

\* create_subprocess_exec returns: the child runs, both pipes are open.
SpawnOk(c) ==
  /\ pc[c] = "spawning"
  /\ CanExec(cmd_list[c])
  /\ process' = [process EXCEPT ![c] =
                   [NoProcess EXCEPT !.state = "running", !.pipes = "open"]]
  /\ pc' = [pc EXCEPT ![c] = "communicating"]
  /\ UNCHANGED <<name, arguments, cmd, args, cmd_list, caught, output, response>>

\* create_subprocess_exec raises: handled at lines 58-73, call_tool returns.
SpawnFails(c) ==
  /\ pc[c] = "spawning"
  /\ \E e \in SpawnErrors(cmd_list[c]) :
       LET r == RunCmdLineExcept(cmd[c], args[c], e)
       IN /\ caught' = [caught EXCEPT ![c] = e]
          /\ output' = [output EXCEPT ![c] = r.value]
          /\ response' = [response EXCEPT ![c] = CallToolFinish(r)]
  /\ pc' = [pc EXCEPT ![c] = "done"]
  /\ UNCHANGED <<name, arguments, cmd, args, cmd_list, process>>

\* The child of call c writes its output and exits (an environment step).
ChildExit(c, outcomes) ==
  /\ process[c].state = "running"
  /\ \E o \in outcomes :
       process' = [process EXCEPT ![c] =
                     [@ EXCEPT !.state = "exited", !.returncode = o.returncode,
                               !.out = o.out, !.err = o.err]]
  /\ UNCHANGED <<pc, name, arguments, cmd, args, cmd_list, caught, output, response>>

\* communicate() returns once the child has exited and both pipes reached
\* EOF; the rest of run_cmd_line and of call_tool runs without an await.
CommunicateReturns(c) ==
  /\ pc[c] = "communicating"
  /\ ProcessOf(c, process).state = "exited"
  /\ LET p == ProcessOf(c, process)
         r == RunCmdLineReturn(cmd[c], args[c], p.returncode, p.out, p.err)
     IN /\ caught' = [caught EXCEPT ![c] =
                        IF Decodable(p.out) /\ Decodable(p.err) THEN NoExc
                        ELSE Exc("UnicodeDecodeError", MsgBadByte)]
        /\ output' = [output EXCEPT ![c] = r.value]
        /\ response' = [response EXCEPT ![c] = CallToolFinish(r)]
  /\ process' = [process EXCEPT ![c] = [@ EXCEPT !.state = "reaped", !.pipes = "closed"]]
  /\ pc' = [pc EXCEPT ![c] = "done"]
  /\ UNCHANGED <<name, arguments, cmd, args, cmd_list>>

\* communicate() raises while the child runs or before it is waited for:
\* the handler returns the error dict and touches nothing else.
CommunicateFails(c) ==
  /\ pc[c] = "communicating"
  /\ process[c].state \in {"running", "exited"}
  /\ \E e \in CommunicateErrors :
       LET r == RunCmdLineExcept(cmd[c], args[c], e)
       IN /\ caught' = [caught EXCEPT ![c] = e]
          /\ output' = [output EXCEPT ![c] = r.value]
          /\ response' = [response EXCEPT ![c] = CallToolFinish(r)]
  /\ pc' = [pc EXCEPT ![c] = "done"]
  /\ UNCHANGED <<name, arguments, cmd, args, cmd_list, process>>

\* The transport sends the response; the call's locals are gone.
Deliver(c) ==
  /\ pc[c] = "done"
  /\ pc' = [pc EXCEPT ![c] = "idle"]
  /\ name' = [name EXCEPT ![c] = ""]
  /\ arguments' = [arguments EXCEPT ![c] = None_]
  /\ cmd' = [cmd EXCEPT ![c] = Unset]
  /\ args' = [args EXCEPT ![c] = Unset]
  /\ cmd_list' = [cmd_list EXCEPT ![c] = <<>>]
  /\ process' = [process EXCEPT ![c] = NoProcess]
  /\ caught' = [caught EXCEPT ![c] = NoExc]
  /\ output' = [output EXCEPT ![c] = None_]
  /\ response' = [response EXCEPT ![c] = NoResponse]

\* One request at a time, every request shape, every output up to MaxOut.
Next ==
  \/ \E req \in Requests : CallTool(1, req)
  \/ SpawnOk(1)
  \/ SpawnFails(1)
  \/ ChildExit(1, Outcomes)
  \/ CommunicateReturns(1)
  \/ CommunicateFails(1)
  \/ Deliver(1)

Spec == Init /\ [][Next]_vars

\* NumCalls requests in flight, interleaved at the awaits.
NextConc ==
  \/ \E c \in Calls, req \in SomeRequests : CallTool(c, req)
  \/ \E c \in Calls : SpawnOk(c)
  \/ \E c \in Calls : SpawnFails(c)
  \/ \E c \in Calls : ChildExit(c, SomeOutcomes)
  \/ \E c \in Calls : CommunicateReturns(c)
  \/ \E c \in Calls : CommunicateFails(c)
  \/ \E c \in Calls : Deliver(c)

SpecConc == Init /\ [][NextConc]_vars

----------------------------------------------------------------------------
\* Properties

Done(c) == pc[c] = "done"

\* run_cmd_line was entered by call c (line 31 ran).
Ran(c) == cmd_list[c] # <<>>

HasCmd(a) == IsDict(a) /\ "cmd" \in DOMAIN a.items

\* The spawn or communicate() raised in call c.
SpawnOrCommunicateFailed(c) == caught[c].type \notin {"none", "UnicodeDecodeError"}

\* C1: whenever spawning or communicating with the child fails, run_cmd_line
\* returns status_code 1, stdout [] and exactly one stderr string, and no
\* exception leaves run_cmd_line (call_tool gets a value to wrap).
C1_FailureGivesStatusOne ==
  \A c \in Calls :
    (Done(c) /\ SpawnOrCommunicateFailed(c)) =>
      /\ response[c].kind = "content"
      /\ output[c].status_code = IntV(1)
      /\ output[c].stdout = <<>>
      /\ Len(output[c].stderr) = 1

C1_Witness ==
  \E c \in Calls :
    /\ Done(c)
    /\ caught[c].type = "FileNotFoundError"
    /\ cmd[c] = StrV("nonexistent_binary_xyz")
    /\ output[c].status_code = IntV(1)

\* C2: a run_command request whose payload is an object containing cmd ends,
\* whatever the child did, with exactly one text block holding the serialized
\* result; call_tool's RuntimeError is never raised.
C2_ValidRequestYieldsResult ==
  \A c \in Calls :
    /\ (Done(c) /\ name[c] = "run_command" /\ HasCmd(arguments[c])) =>
         /\ response[c].kind = "content"
         /\ Len(response[c].blocks) = 1
         /\ response[c].blocks[1].type = "text"
         /\ response[c].blocks[1].text = JsonDumps(output[c])
         /\ output[c].cmd = arguments[c].items["cmd"]
    /\ response[c].kind = "fault" => response[c].type # "RuntimeError"

C2_Witness ==
  \E c \in Calls :
    /\ Done(c)
    /\ process[c].state = "reaped"
    /\ process[c].returncode = IntV(2)
    /\ response[c].kind = "content"
    /\ Len(response[c].blocks) = 1

\* C3 (as claimed): the argument vector is [cmd] when args is absent or null
\* and [cmd, args] for every non-null string args, the empty string included.
C3_NonNullArgsAppended ==
  \A c \in Calls :
    Ran(c) =>
      cmd_list[c] = IF args[c] = None_ THEN <<cmd[c]>> ELSE <<cmd[c], args[c]>>

\* C3 (amended): the argument vector is [cmd] when args is absent, null or
\* the empty string, and [cmd, args] for every non-empty string args, as one
\* token.
C3_NonEmptyArgsAppended ==
  \A c \in Calls :
    Ran(c) =>
      cmd_list[c] = IF args[c] = None_ \/ args[c] = StrV("")
                    THEN <<cmd[c]>>
                    ELSE <<cmd[c], args[c]>>

C3_Witness ==
  \E c \in Calls :
    /\ pc[c] = "communicating"
    /\ args[c] = StrV("")
    /\ cmd_list[c] = <<cmd[c]>>

\* Trailing whitespace stripped, split at newlines, empty segments dropped.
ReferenceLines(text) == NonEmptyLines(Split(RStrip(text), "\n"))

\* C4: when the child exits with code 0 the result has status_code 0 and its
\* stdout is the child's output with only trailing whitespace stripped, split
\* at newlines, empty segments removed.
C4_ExitZeroStdoutIsReference ==
  \A c \in Calls :
    (Done(c) /\ process[c].state = "reaped" /\ process[c].returncode = IntV(0)) =>
      /\ output[c].status_code = IntV(0)
      /\ Decodable(process[c].out) =>
           output[c].stdout = ReferenceLines(Decode(process[c].out))

\* C5: a request whose tool name is not run_command fails with the
\* unknown-tool error; run_cmd_line is not entered and no process exists.
C5_UnknownToolRejected ==
  \A c \in Calls :
    (pc[c] # "idle" /\ name[c] # "run_command") =>
      /\ Done(c)
      /\ response[c] = Fault("ValueError", "Unknown tool")
      /\ ~Ran(c)
      /\ process[c].state = "none"

C5_Witness ==
  \E c \in Calls :
    /\ Done(c)
    /\ name[c] = "delete_everything"
    /\ HasCmd(arguments[c])
    /\ response[c].kind = "fault"

\* C6: a run_command request whose payload is not an object, or has no cmd,
\* fails with the invalid-arguments error before run_cmd_line is entered; no
\* process exists.
C6_InvalidArgumentsRejected ==
  \A c \in Calls :
    (pc[c] # "idle" /\ name[c] = "run_command" /\ ~HasCmd(arguments[c])) =>
      /\ Done(c)
      /\ response[c] = Fault("ValueError", "Invalid arguments")
      /\ ~Ran(c)
      /\ process[c].state = "none"

C6_Witness ==
  \E c \in Calls :
    /\ Done(c)
    /\ name[c] = "run_command"
    /\ IsDict(arguments[c])
    /\ DOMAIN arguments[c].items = {}
    /\ response[c].kind = "fault"

\* The child of call c ran, was read to the end and exited non-zero.
RanAndFailed(c) ==
  process[c].state = "reaped" /\ process[c].returncode # IntV(0)

\* C7 (as claimed): a failed launch gives status_code 1, a process that ran
\* and failed gives its real exit code, and stderr is non-empty in both cases.
C7_ErrorsHaveStderr ==
  \A c \in Calls :
    Done(c) =>
      /\ (Ran(c) /\ process[c].state = "none") =>
           output[c].status_code = IntV(1) /\ output[c].stderr # <<>>
      /\ RanAndFailed(c) =>
           output[c].status_code = process[c].returncode /\ output[c].stderr # <<>>

\* C7 (amended): status_code is 1 with exactly one stderr line when the
\* launch, the communication or the decoding failed; otherwise it is the
\* process's real exit code, and stderr is empty exactly when the child wrote
\* nothing but whitespace to its standard error.
C7_ErrorsNormalized ==
  \A c \in Calls :
    (Done(c) /\ Ran(c)) =>
      IF caught[c] # NoExc
      THEN output[c].status_code = IntV(1) /\ Len(output[c].stderr) = 1
      ELSE /\ output[c].status_code = process[c].returncode
           /\ (output[c].stderr = <<>>) <=>
                (\A i \in 1..Len(process[c].err) :
                   CharOf(process[c].err[i]) \in Whitespace)

C7_Witness ==
  \E c \in Calls :
    /\ Done(c)
    /\ RanAndFailed(c)
    /\ caught[c] = NoExc
    /\ output[c].status_code = IntV(2)
    /\ output[c].stderr = <<>>

NoEmptyString(lines) == \A i \in 1..Len(lines) : lines[i] # <<>>

AloneResult(c) ==
  LET c0 == arguments[c].items["cmd"]
      a0 == IF "args" \in DOMAIN arguments[c].items
            THEN arguments[c].items["args"] ELSE None_
  IN IF SpawnOrCommunicateFailed(c)
     THEN RunCmdLineExcept(c0, a0, caught[c])
     ELSE RunCmdLineReturn(c0, a0, process[c].returncode,
                           process[c].out, process[c].err)

ResultsAsAlone ==
  \A c \in Calls :
    (Done(c) /\ Ran(c)) =>
      /\ output[c] = AloneResult(c).value
      /\ response[c] = CallToolFinish(AloneResult(c))

CallVars(c) ==
  <<pc[c], name[c], arguments[c], cmd[c], args[c], cmd_list[c],
    process[c], caught[c], output[c], response[c]>>

OneCallPerStep ==
  \E c \in Calls : \A d \in Calls \ {c} : CallVars(d)' = CallVars(d)

\* C9: with several calls in flight, interleaved at their awaits, each
\* finished call's result is the one it gives alone (a function of its own
\* cmd, args and child), and every step changes the state of one call only.
C9_Isolation == []ResultsAsAlone /\ [][OneCallPerStep]_vars

C9_Witness ==
  \E c \in Calls, d \in Calls :
    /\ c # d
    /\ Done(c)
    /\ process[c].state = "reaped"
    /\ pc[d] = "communicating"
    /\ process[d].state = "exited"
    /\ process[d].out # process[c].out

\* C10: a call never ends while its child is running or unreaped or while
\* its pipes are open.
C10_ResourcesReleased ==
  \A c \in Calls :
    Done(c) =>
      /\ process[c].state \in {"none", "reaped"}
      /\ process[c].pipes \in {"none", "closed"}

====
